---- MODULE Spec2Model ----
(***************************************************************************)
(* The Metropolis-Hastings walker mhMCMC of MCMCfitting.ipynb.             *)
(*                                                                         *)
(* Floats are tagged records: a finite value, an infinity (val is its      *)
(* sign) or NaN.  Likelihood ratios and uniform draws are finite values in *)
(* units of 1/10000.  Arrays live in a heap of objects, names hold         *)
(* references, so that aliasing between initparams, p and the entries of   *)
(* plist is visible.                                                       *)
(***************************************************************************)
EXTENDS Integers, Sequences, FiniteSets, TLC

VARIABLES
    heap,        \* the arrays allocated so far, a reference is an index
    initparams,  \* the caller's initial position (a reference)
    stepsize,    \* the caller's proposal scales
    nsteps,      \* the number of steps asked for
    chi2func,    \* the caller's cost function, a table over Regions
    p,           \* the walker's current position (a reference, 0 before the call)
    plist,       \* the list of references appended so far
    i,           \* iterations of the outer loop completed
    pc,          \* "call", "loop", "returned" or "raised"
    err,         \* the exception that ended the call, "none" otherwise
    result,      \* the array returned by the call
    last,        \* what the latest iteration drew and decided
    rng,         \* numpy's global generator: seeded or not, its tape, its position
    args0,       \* the values of the arguments when the call was made
    run,         \* 1 for the first call, 2 for the repeated one
    first        \* the array the first call returned

vars == <<heap, initparams, stepsize, nsteps, chi2func, p, plist, i, pc, err,
          result, last, rng, args0, run, first>>

---------------------------------------------------------------------------
\* Bounds of the model.
MaxSteps == 2
MaxParams == 2

---------------------------------------------------------------------------
\* Floating point.
Fin(x) == [kind |-> "fin", val |-> x]
PosInf == [kind |-> "inf", val |-> 1]
NaN == [kind |-> "nan", val |-> 0]
NoFloat == [kind |-> "none", val |-> 0]

IsFinite(a) == a.kind = "fin"

\* a < b on floats: false as soon as one side is NaN.
FLt(a, b) ==
    CASE a.kind = "nan" \/ b.kind = "nan" -> FALSE
      [] a.kind = "fin" /\ b.kind = "fin" -> a.val < b.val
      [] a.kind = "inf" /\ b.kind = "inf" -> a.val < b.val
      [] a.kind = "inf" -> a.val < 0
      [] OTHER -> b.val > 0

\* a > b on floats.
FGt(a, b) == FLt(b, a)

\* a - b on floats: inf - inf of the same sign is NaN.
FSub(a, b) ==
    CASE a.kind = "nan" \/ b.kind = "nan" -> NaN
      [] a.kind = "fin" /\ b.kind = "fin" -> Fin(a.val - b.val)
      [] a.kind = "inf" /\ b.kind = "inf" -> IF a.val = b.val THEN NaN ELSE a
      [] a.kind = "inf" -> a
      [] OTHER -> [kind |-> "inf", val |-> 0 - b.val]

\* a / 2. ; the cost values of the model are even, so the quotient is exact.
FHalve(a) == IF a.kind = "fin" THEN Fin(a.val \div 2) ELSE a

\* math.exp on doubles: above ExpMaxArg it raises OverflowError, below
\* ExpMinArg it returns 0.0 without a word.
ExpMaxArg == 709
ExpMinArg == -745
Overflow == [kind |-> "overflow", val |-> 0]

\* exp(x) in units of 1/10000 for the arguments in between that the cost
\* values of the model produce.
ExpTable(x) ==
    CASE x = -2 -> 1353
      [] x = -1 -> 3679
      [] x = 0 -> 10000
      [] x = 1 -> 27183
      [] x = 2 -> 73891

MathExp(a) ==
    CASE a.kind = "nan" -> NaN
      [] a.kind = "inf" -> IF a.val > 0 THEN PosInf ELSE Fin(0)
      [] a.val > ExpMaxArg -> Overflow
      [] a.val < ExpMinArg -> Fin(0)
      [] OTHER -> Fin(ExpTable(a.val))

---------------------------------------------------------------------------
\* The caller's inputs.

\* Scales: negative (against the contract), zero (pinned), positive.
Scales == {-1, 0, 1}
\* Values a cost function returns: 0, 2, a huge finite value, +infinity.
CostVals == {Fin(0), Fin(2), Fin(1500), PosInf}
\* Parameter space is cut into the origin and everything else; a cost
\* function is constant on each region.
Regions == {0, 1}
Region(q) == IF \A j \in 1..Len(q) : q[j] = 0 THEN 0 ELSE 1
Chi2Funcs == [Regions -> CostVals]

Vectors(S) == UNION {[1..n -> S] : n \in 1..MaxParams}
Zeros(n) == [j \in 1..n |-> 0]
\* Initial positions: the origin, and the point one unit along the first axis.
InitVectors == UNION {{Zeros(n), [Zeros(n) EXCEPT ![1] = 1]} : n \in 1..MaxParams}

\* Standard normal deviates, and uniform draws in [0, 1) in units of 1/10000:
\* the lowest value, one on each side of exp(-1), and the highest.
Deviates == {-1, 1}
Uniforms == {0, 3678, 3679, 9999}
NoDraw == -1

---------------------------------------------------------------------------
\* Helpers of the walker.

Min(a, b) == IF a < b THEN a ELSE b
\* The k-th smallest element of a set of integers.
Kth(S, k) == CHOOSE x \in S : Cardinality({y \in S : y < x}) = k - 1

\* chi2func(q, xi, yi, err): deterministic, the data are fixed.
Chi2(f, q) == f[Region(q)]

\* p + dp on arrays of one length.
VAdd(q, d) == [j \in 1..Len(q) |-> q[j] + d[j]]

\* dp: zeros(len(p)), overwritten at j by normal(scale = sizes[j]) where
\* sizes[j] > 0; numpy scales a standard deviate by the scale.
ProposalOnEmpty(sizes, zs, n) ==
    [j \in 1..n |-> IF sizes[j] > 0 THEN sizes[j] * zs[j] ELSE 1]
Proposal(sizes, zs, n) ==
    [j \in 1..n |-> IF sizes[j] > 0 THEN sizes[j] * zs[j] ELSE 0]

\* The test of the if: the proposal is strictly better.
Better(cnew, cold) == FLt(cnew, cold)

\* r = exp((chi2(p) - chi2(p + dp)) / 2.)
RatioSwapped(cold, cnew) == MathExp(FHalve(FSub(cnew, cold)))
RatioNotHalved(cold, cnew) == MathExp(FSub(cold, cnew))
LikelihoodRatio(cold, cnew) == MathExp(FHalve(FSub(cold, cnew)))

\* if r > u
AcceptsOrEqual(r, u) == ~FLt(r, Fin(u)) /\ r.kind # "nan"
Accepts(r, u) == FGt(r, Fin(u))

\* plist = [p]
EmptyList(ref) == <<>>
InitialList(ref) == <<ref>>

\* p = p + dp: the sum is a new array, the name p is bound to it.
AddInPlace(h, ref, d) == [heap |-> [h EXCEPT ![ref] = VAdd(h[ref], d)], ref |-> ref]
PAdd(h, ref, d) == [heap |-> Append(h, VAdd(h[ref], d)), ref |-> Len(h) + 1]

\* plist.append(p), once per iteration.
AppendIfMoved(l, ref, moved) == IF moved THEN Append(l, ref) ELSE l
Appended(l, ref, moved) == Append(l, ref)

\* np.array(plist): the arrays the references point to, copied.
ArrayOf(h, l) == [k \in 1..Len(l) |-> h[l[k]]]

\* np.random.normal and np.random.uniform read numpy's global generator:
\* once seeded, its k-th output is what the tape holds at k.
FromAnySource(g, draws) == TRUE
FromGenerator(g, draws) ==
    g.seeded =>
        \A k \in 1..Len(draws) :
            g.pos + k <= Len(g.tape) => g.tape[g.pos + k] = draws[k]

\* The generator after it has put out draws.
Consumed(g, draws) ==
    [g EXCEPT !.pos = @ + Len(draws),
              !.tape = IF g.seeded /\ g.pos + Len(draws) > Len(g.tape)
                       THEN SubSeq(g.tape, 1, g.pos) \o draws
                       ELSE g.tape]

NoLast == [dp |-> <<>>, from |-> <<>>, cold |-> NoFloat, cnew |-> NoFloat,
           used |-> FALSE, u |-> NoDraw, r |-> NoFloat, moved |-> FALSE,
           normals |-> 0]

---------------------------------------------------------------------------
\* The call mhMCMC(xi, yi, err, chi2func, initparams, stepsize, nsteps).

InitWith(vecs, sizes, funcs, seeded) ==
    /\ \E v \in vecs : heap = <<v>>
    /\ initparams = 1
    /\ stepsize \in sizes
    /\ nsteps \in 0..MaxSteps
    /\ chi2func \in funcs
    /\ p = 0
    /\ plist = <<>>
    /\ i = 0
    /\ pc = "call"
    /\ err = "none"
    /\ result = <<>>
    /\ last = NoLast
    /\ rng = [seeded |-> seeded, tape |-> <<>>, pos |-> 0]
    /\ args0 = [initparams |-> heap[1], stepsize |-> stepsize,
                nsteps |-> nsteps, chi2func |-> chi2func]
    /\ run = 1
    /\ first = <<>>

\* Any arguments, the generator not seeded.
Init == InitWith(InitVectors, Vectors(Scales), Chi2Funcs, FALSE)

\* p = initparams ; plist = [p]
Enter ==
    /\ pc = "call"
    /\ p' = initparams
    /\ plist' = InitialList(initparams)
    /\ i' = 0
    /\ pc' = "loop"
    /\ UNCHANGED <<heap, initparams, stepsize, nsteps, chi2func, err, result,
                   last, rng, args0, run, first>>

\* An exception leaves the loop: nothing is appended, nothing is returned.
Raise(kind, draws, rec) ==
    /\ FromGenerator(rng, draws)
    /\ rng' = Consumed(rng, draws)
    /\ pc' = "raised"
    /\ err' = kind
    /\ last' = rec
    /\ UNCHANGED <<heap, p, plist, i>>

\* The end of an iteration: move or stay, then append.
Finish(draws, rec) ==
    LET np == IF rec.moved THEN PAdd(heap, p, rec.dp) ELSE [heap |-> heap, ref |-> p]
    IN  /\ FromGenerator(rng, draws)
        /\ rng' = Consumed(rng, draws)
        /\ heap' = np.heap
        /\ p' = np.ref
        /\ plist' = Appended(plist, np.ref, rec.moved)
        /\ i' = i + 1
        /\ last' = rec
        /\ UNCHANGED <<pc, err>>

\* One iteration of for i in range(0, nsteps).
Step ==
    /\ pc = "loop"
    /\ i < nsteps
    /\ LET cur == heap[p]
           n == Len(cur)
           free == {j \in 1..Min(n, Len(stepsize)) : stepsize[j] > 0}
       IN  \E z \in [free -> Deviates] :
             LET normals == [k \in 1..Cardinality(free) |-> z[Kth(free, k)]]
                 base == [NoLast EXCEPT !.from = cur, !.normals = Len(normals)]
             IN  IF Len(stepsize) < n
                 THEN \* stepsize[j] past the end: IndexError
                      Raise("IndexError", normals, base)
                 ELSE LET dp == Proposal(stepsize, z, n)
                          cnew == Chi2(chi2func, VAdd(cur, dp))
                          cold == Chi2(chi2func, cur)
                          seen == [base EXCEPT !.dp = dp, !.cold = cold, !.cnew = cnew]
                      IN  IF Better(cnew, cold)
                          THEN Finish(normals, [seen EXCEPT !.moved = TRUE])
                          ELSE LET r == LikelihoodRatio(cold, cnew)
                               IN  IF r = Overflow
                                   THEN Raise("OverflowError", normals,
                                              [seen EXCEPT !.r = r])
                                   ELSE \E u \in Uniforms :
                                          Finish(Append(normals, u),
                                                 [seen EXCEPT !.r = r, !.used = TRUE,
                                                              !.u = u,
                                                              !.moved = Accepts(r, u)])
    /\ UNCHANGED <<initparams, stepsize, nsteps, chi2func, result, args0, run, first>>

\* return np.array(plist)
Return ==
    /\ pc = "loop"
    /\ i >= nsteps
    /\ result' = ArrayOf(heap, plist)
    /\ pc' = "returned"
    /\ UNCHANGED <<heap, initparams, stepsize, nsteps, chi2func, p, plist, i, err,
                   last, rng, args0, run, first>>

Next == Enter \/ Step \/ Return

Spec == Init /\ [][Next]_vars

---------------------------------------------------------------------------
\* The same call made twice under one seed: np.random.seed(s), a call,
\* np.random.seed(s) again, the call again with the same arguments.

\* The arguments of the seeded calls: one or two parameters, free or pinned.
SeededVectors == {<<0>>, <<1>>, <<0, 0>>, <<1, 0>>}
SeededSizes == {<<1>>, <<1, 1>>, <<0, 1>>}
InitSeeded == InitWith(SeededVectors, SeededSizes, Chi2Funcs, TRUE)

\* Reseeding puts the generator back at the start of its tape; the second call
\* gets the same argument objects; the first call's temporaries are gone.
Rerun ==
    /\ pc = "returned"
    /\ run = 1
    /\ first' = result
    /\ run' = 2
    /\ rng' = [rng EXCEPT !.pos = 0]
    /\ heap' = <<heap[initparams]>>
    /\ p' = 0
    /\ plist' = <<>>
    /\ i' = 0
    /\ pc' = "call"
    /\ result' = <<>>
    /\ last' = NoLast
    /\ UNCHANGED <<initparams, stepsize, nsteps, chi2func, err, args0>>

NextSeeded == Enter \/ Step \/ Return \/ Rerun

SpecSeeded == InitSeeded /\ [][NextSeeded]_vars

---------------------------------------------------------------------------
\* What the claims speak of.

\* The chain so far, read through the references of plist.
Chain == ArrayOf(heap, plist)
\* The latest iteration ran to its append.
StepDone == last.dp # <<>>
\* The arguments as the contract wants them.
SameLength == Len(args0.stepsize) = Len(args0.initparams)
NoNegativeScale == \A j \in 1..Len(args0.stepsize) : args0.stepsize[j] >= 0
InitialCost == Chi2(args0.chi2func, args0.initparams)

---------------------------------------------------------------------------
\* C1: with initparams and stepsize of one length the call never raises, the
\* list holds i + 1 entries while the loop runs, and the array returned has
\* exactly nsteps + 1 rows, row 0 being the initial vector as it was passed
\* (for nsteps = 0 the only row).
C1_ChainLength ==
    SameLength =>
        /\ pc # "raised"
        /\ pc = "loop" => (Len(plist) = i + 1 /\ i <= args0.nsteps)
        /\ pc = "returned" =>
              /\ Len(result) = args0.nsteps + 1
              /\ result[1] = args0.initparams

C1_Witness ==
    /\ SameLength
    /\ pc = "returned"
    /\ nsteps >= 2
    /\ result[Len(result)] # result[1]

\* C2: a proposal of infinite cost made from a point of finite cost is
\* rejected whatever uniform draw comes (0 included); from an initial point of
\* finite cost every element of the chain has finite cost; and when the cost is
\* infinite everywhere but at the initial point the chain stays at it.
C2_ForbiddenRejected ==
    /\ (StepDone /\ IsFinite(last.cold) /\ last.cnew = PosInf) => ~last.moved
    /\ IsFinite(InitialCost) =>
          \A k \in 1..Len(plist) : IsFinite(Chi2(args0.chi2func, Chain[k]))
    /\ ( /\ IsFinite(InitialCost)
         /\ Region(args0.initparams) = 0
         /\ args0.chi2func[1] = PosInf ) =>
          \A k \in 1..Len(plist) : Chain[k] = args0.initparams

C2_Witness ==
    /\ StepDone
    /\ IsFinite(last.cold)
    /\ last.cnew = PosInf
    /\ last.used
    /\ last.u = 0
    /\ i >= 2
    /\ Chain[i + 1] = Chain[i]

\* C3: a parameter whose scale is 0 keeps, in every element of the chain and
\* in the array returned, the value it had in the initial vector.
C3_PinnedStays ==
    \A j \in 1..Min(Len(args0.initparams), Len(args0.stepsize)) :
        args0.stepsize[j] = 0 =>
            /\ \A k \in 1..Len(plist) : Chain[k][j] = args0.initparams[j]
            /\ \A k \in 1..Len(result) : result[k][j] = args0.initparams[j]

C3_Witness ==
    /\ pc = "returned"
    /\ Len(result) >= 3
    /\ \E j \in 1..Len(args0.initparams) :
          /\ j <= Len(args0.stepsize)
          /\ args0.stepsize[j] = 0
    /\ \E j \in 1..Len(args0.initparams) :
          /\ result[2][j] # result[1][j]
          /\ result[3][j] # result[2][j]

\* C4: an iteration that reaches its end appends exactly one element, which is
\* the previous element or the previous element plus the dp drawn in that
\* iteration, and leaves the earlier elements as they were; the list always
\* holds one element more than the iterations done.
C4_OneAppendPerStep ==
    [][(pc = "loop" /\ pc' = "loop" /\ i' = i + 1) =>
          /\ Len(plist') = i' + 1
          /\ \A k \in 1..Len(plist) : Chain'[k] = Chain[k]
          /\ \/ Chain'[i' + 1] = Chain[i + 1]
             \/ Chain'[i' + 1] = VAdd(Chain[i + 1], last'.dp)
          /\ Chain'[i' + 1] = heap'[p']]_vars

C4_Witness ==
    /\ pc = "loop"
    /\ i >= 2
    /\ Chain[2] = Chain[1]
    /\ Chain[3] # Chain[2]
    /\ Chain[3] = VAdd(Chain[2], last.dp)

\* C5: the call repeated with the same arguments under the same seed returns
\* the array the first call returned.
C5_SameSeedSameChain ==
    (run = 2 /\ pc = "returned") => result = first

\* Both calls returned, and the uniform was drawn in some iterations only.
C5_Witness ==
    LET nfree == Cardinality({j \in 1..Len(stepsize) : stepsize[j] > 0})
    IN  /\ run = 2
        /\ pc = "returned"
        /\ SameLength
        /\ nsteps >= 2
        /\ Len(rng.tape) > nfree * nsteps
        /\ Len(rng.tape) < (nfree + 1) * nsteps
        /\ result[Len(result)] # result[1]

\* C6: with stepsize of another length than initparams, or a negative scale,
\* the call raises before any draw and any step, and returns nothing.
C6_FailsFast ==
    (~SameLength \/ ~NoNegativeScale) =>
        /\ pc # "returned"
        /\ rng.pos = 0
        /\ i = 0

\* C7: with arguments inside the contract, an iteration in which the cost of
\* the current point and the cost of the proposal are both +infinity ends the
\* call with an exception.
C7_DegenerateFails ==
    (SameLength /\ NoNegativeScale /\ last.cold = PosInf /\ last.cnew = PosInf) =>
        pc = "raised"

\* C8: no step changes the caller's initparams, stepsize or cost function,
\* and no step changes or removes an element already in the chain.
C8_FrameAndAppendOnly ==
    [][/\ heap'[initparams'] = args0.initparams
       /\ stepsize' = args0.stepsize
       /\ chi2func' = args0.chi2func
       /\ nsteps' = args0.nsteps
       /\ Len(plist') >= Len(plist)
       /\ \A k \in 1..Len(plist) : Chain'[k] = Chain[k]
       /\ pc' = "returned" => result' = Chain]_vars

C8_Witness ==
    /\ pc = "returned"
    /\ nsteps >= 2
    /\ result[2] # result[1]
    /\ result[3] # result[2]
    /\ heap[initparams] = args0.initparams
    /\ result[1] = args0.initparams

\* C9: with finite costs the walker moves iff the proposal costs strictly
\* less or exp((cost(current) - cost(proposal)) / 2) > u: a cheaper proposal
\* is taken without u being drawn, an equally dear one is always taken, a
\* dearer one is taken exactly when the ratio exceeds u.
C9_AcceptanceRule ==
    (StepDone /\ IsFinite(last.cold) /\ IsFinite(last.cnew)) =>
        LET lower == last.cnew.val < last.cold.val
            equal == last.cnew.val = last.cold.val
            ratio == MathExp(Fin((last.cold.val - last.cnew.val) \div 2))
        IN  /\ last.moved <=> (lower \/ (last.used /\ ratio.val > last.u))
            /\ lower => (last.moved /\ ~last.used /\ last.u = NoDraw)
            /\ ~lower => (last.used /\ last.u \in Uniforms)
            /\ equal => (last.moved /\ ratio.val = 10000)
            /\ (~lower /\ ~equal) => (last.moved <=> ratio.val > last.u)

C9_Witness ==
    /\ StepDone
    /\ last.cold = Fin(0)
    /\ last.cnew = Fin(2)
    /\ last.u = 3678
    /\ last.moved
    /\ i >= 2

\* C10: the exponential never ends a run: it is only computed for an
\* exponent that is not positive, so it cannot overflow, and when it
\* underflows to 0 the proposal is rejected and the loop goes on.
C10_ExpNeverFatal ==
    /\ err # "OverflowError"
    /\ last.r.kind # "overflow"
    /\ (StepDone /\ last.used /\ IsFinite(last.cold) /\ IsFinite(last.cnew)) =>
          /\ last.cold.val - last.cnew.val <= 0
          /\ (last.cold.val - last.cnew.val) \div 2 < ExpMinArg =>
                /\ last.r = Fin(0)
                /\ ~last.moved
                /\ pc # "raised"

C10_Witness ==
    /\ StepDone
    /\ last.used
    /\ last.cold = Fin(0)
    /\ last.cnew = Fin(1500)
    /\ last.r = Fin(0)
    /\ last.u = 0
    /\ ~last.moved
    /\ pc = "loop"
    /\ i >= 1
    /\ i < nsteps

====
